---- MODULE Spec2Model ----
(***************************************************************************)
(* The Lift interpreter core (src/lift-rs/src/story.rs): the scoped        *)
(* session state, the recursive content evaluator, full render (play),    *)
(* interactive continuation (send) and snapshot/restore.                   *)
(*                                                                         *)
(* Tagged Rust enums are tuples whose first component is the variant name. *)
(* Option<T> is a sequence of length 0 (None) or 1 (Some).  HashMaps are   *)
(* functions on a finite set of strings.  Vec indices are 0-based in the   *)
(* source and the sequences here are 1-based: element i of a Vec is the    *)
(* sequence element i + 1.                                                 *)
(***************************************************************************)
EXTENDS Integers, Sequences, FiniteSets, TLC

(***************************************************************************)
(* Bounds of the model.                                                    *)
(***************************************************************************)
\* largest integer a Set node may store; a run that would exceed it is cut
MaxVal == 2
\* send is tried with every index 0 .. MaxIndex
MaxIndex == 5

(***************************************************************************)
(* crate::value::Value (not in src/): integers, lists and the "nothing"    *)
(* value an expression yields for a variable that is not found.            *)
(***************************************************************************)
Null == <<"null">>
IntV(i) == <<"int", i>>
ListV(s) == <<"list", s>>

\* Value::is_true
IsTrue(v) ==
  CASE v[1] = "int" -> v[2] # 0
    [] v[1] = "list" -> Len(v[2]) > 0
    [] OTHER -> FALSE

\* Value::iter: the ordered (key, value) pairs of a list, keys counted from 0
Iter(v) ==
  IF v[1] = "list" THEN [k \in 1..Len(v[2]) |-> <<IntV(k - 1), v[2][k]>>] ELSE <<>>

\* the text a value is shown as inside a template
Render(v) ==
  CASE v[1] = "int" -> ToString(v[2])
    [] v[1] = "list" -> "list" \o ToString(Len(v[2]))
    [] OTHER -> ""

RECURSIVE Resolves(_, _)
\* Value::get_mut(indices).is_some(): the index path names a slot of the value
Resolves(v, indices) ==
  IF Len(indices) = 0 THEN TRUE
  ELSE /\ v[1] = "list"
       /\ indices[1][1] = "int"
       /\ indices[1][2] >= 0
       /\ indices[1][2] < Len(v[2])
       /\ Resolves(v[2][indices[1][2] + 1], Tail(indices))

RECURSIVE Assign(_, _, _)
\* *var.get_mut(indices) = value, for a path that resolves
Assign(v, indices, value) ==
  IF Len(indices) = 0 THEN value
  ELSE ListV([v[2] EXCEPT ![indices[1][2] + 1] = Assign(@, Tail(indices), value)])

(***************************************************************************)
(* HashMap operations.                                                     *)
(***************************************************************************)
EmptyMap == [k \in {} |-> Null]
\* HashMap::insert
MapInsert(m, k, v) == [x \in DOMAIN m \cup {k} |-> IF x = k THEN v ELSE m[x]]
\* HashMap::get
MapGet(m, k) == IF k \in DOMAIN m THEN <<m[k]>> ELSE <<>>

(***************************************************************************)
(* struct State and its accessors.                                         *)
(***************************************************************************)
\* State::new
NewState(first_page) ==
  [current_page |-> first_page, global |-> EmptyMap, local |-> EmptyMap, output |-> <<>>]

\* State::get
Get(st, page, variable) ==
  IF page \in DOMAIN st.local /\ variable \in DOMAIN st.local[page]
  THEN <<st.local[page][variable]>>
  ELSE MapGet(st.global, variable)

\* <State as StateManager>::get
Lookup(st, variable) == Get(st, st.current_page, variable)

\* State::set
set(st, variable, value) == [st EXCEPT !.global = MapInsert(@, variable, value)]

\* State::set_index
set_index(st, variable, indices, value) ==
  IF Len(indices) = 0 THEN set(st, variable, value)
  ELSE IF variable \in DOMAIN st.global /\ Resolves(st.global[variable], indices)
       THEN [st EXCEPT !.global[variable] = Assign(@, indices, value)]
       ELSE st

\* set_local storing into the global map
set_local_wrong_scope(st, variable, value) ==
  [st EXCEPT !.global = MapInsert(@, variable, value)]

\* State::set_local
set_local(st, variable, value) ==
  LET scope == IF st.current_page \in DOMAIN st.local
               THEN st.local[st.current_page] ELSE EmptyMap
  IN [st EXCEPT !.local = MapInsert(@, st.current_page, MapInsert(scope, variable, value))]

\* set_local_index writing to the global variable when the local one is missing
set_local_index_falls_back(st, variable, indices, value) ==
  IF Len(indices) = 0 THEN set_local(st, variable, value)
  ELSE IF /\ st.current_page \in DOMAIN st.local
          /\ variable \in DOMAIN st.local[st.current_page]
       THEN [st EXCEPT !.local[st.current_page][variable] =
               IF Resolves(@, indices) THEN Assign(@, indices, value) ELSE @]
       ELSE set_index(st, variable, indices, value)

\* State::set_local_index
set_local_index(st, variable, indices, value) ==
  IF Len(indices) = 0 THEN set_local(st, variable, value)
  ELSE IF /\ st.current_page \in DOMAIN st.local
          /\ variable \in DOMAIN st.local[st.current_page]
          /\ Resolves(st.local[st.current_page][variable], indices)
       THEN [st EXCEPT !.local[st.current_page][variable] = Assign(@, indices, value)]
       ELSE st

(***************************************************************************)
(* crate::expression (not in src/): expressions read variables through     *)
(* the StateManager accessor only.                                         *)
(*   <<"const", v>>      the value v                                       *)
(*   <<"var", n>>        the value of n, Null when n is not found          *)
(*   <<"add", n, k>>     n + k, a missing or non-integer n counting as 0   *)
(*   <<"lt", n, k>>      1 when n < k, else 0                              *)
(* A text template is <<"lit", s>> (no placeholder) or <<"show", n>>       *)
(* (the single placeholder {n}).                                           *)
(***************************************************************************)
ReadVar(st, n) == LET r == Lookup(st, n) IN IF Len(r) = 0 THEN Null ELSE r[1]
NumVar(st, n) == LET v == ReadVar(st, n) IN IF v[1] = "int" THEN v[2] ELSE 0

ExprEval(e, st) ==
  CASE e[1] = "const" -> e[2]
    [] e[1] = "var" -> ReadVar(st, e[2])
    [] e[1] = "add" -> IntV(NumVar(st, e[2]) + e[3])
    [] e[1] = "lt" -> IntV(IF NumVar(st, e[2]) < e[3] THEN 1 ELSE 0)

TextEval(t, st) ==
  CASE t[1] = "lit" -> t[2]
    [] t[1] = "show" -> Render(ReadVar(st, t[2]))

(***************************************************************************)
(* The story: crate::content::Page values as the page-body parser builds   *)
(* them.  A content node is                                                *)
(*   <<"Text", template>>                                                  *)
(*   <<"Link", action>>     action one of <<"Normal", title, destination>>,*)
(*                          <<"Content", title, page_action>>,             *)
(*                          <<"JumpLink", title, destination, page_action>>*)
(*                          <<"Input", variable, page_action>>             *)
(*   <<"Goto", template>>   <<"Import", template>>                         *)
(*   <<"Set", local, variable, indices, expression>>                       *)
(*   <<"If", expression, content>>  <<"ElseIf", expression, content>>      *)
(*   <<"Else", content>>                                                   *)
(*   <<"For", index, variable, expression, content>>                       *)
(*   <<"While", expression, content>>   <<"Error", message>>               *)
(***************************************************************************)
PageAction(page, index) == [page |-> page, index |-> index]
Lit(s) == <<"lit", s>>
Show(n) == <<"show", n>>
Const(v) == <<"const", v>>

StartPage ==
  [content |-> <<
     <<"Text", Lit("hello")>>,
     <<"Link", <<"Normal", Lit("go"), Lit("C1")>>>>,
     <<"Link", <<"Content", Lit("more"), PageAction("Start", 0)>>>>,
     <<"Link", <<"Content", Lit("leave"), PageAction("Start", 1)>>>>,
     <<"Link", <<"JumpLink", Lit("jump"), Lit("Count"), PageAction("Start", 2)>>>>,
     <<"Link", <<"Input", "x", PageAction("Start", 3)>>>> >>,
   actions |-> <<
     << <<"Text", Lit("m1")>>, <<"Set", TRUE, "seen", <<>>, Const(IntV(1))>>,
        <<"Text", Show("seen")>> >>,
     << <<"Text", Lit("bye")>>, <<"Set", FALSE, "g", <<>>, Const(IntV(1))>>,
        <<"Goto", Lit("C1")>>, <<"Text", Lit("unreached")>> >>,
     << <<"Text", Lit("j")>>, <<"Goto", Lit("C3")>> >>,
     << <<"Text", Show("x")>>,
        <<"If", <<"lt", "x", 2>>, << <<"Text", Lit("small")>>, <<"Goto", Lit("Count")>> >> >>,
        <<"Text", Lit("big")>> >> >>]

C1Page ==
  [content |-> <<
     <<"Text", Lit("c1")>>,
     <<"Goto", Lit("C2")>> >>,
   actions |-> <<>>]

C2Page ==
  [content |-> << <<"Text", Lit("c2")>>, <<"Goto", Lit("C3")>> >>,
   actions |-> <<>>]

C3Page ==
  [content |-> <<
     <<"Text", Lit("c3")>>,
     <<"Text", Show("g")>>,
     <<"Link", <<"JumpLink", Lit("home"), Lit("Start"), PageAction("C3", 0)>>>> >>,
   actions |-> << << <<"Text", Lit("h")>> >> >>]

CountPage ==
  [content |-> <<
     <<"Text", Show("n")>>,
     <<"Set", FALSE, "n", <<>>, <<"add", "n", 1>>>>,
     <<"Link", <<"Normal", Lit("back"), Lit("Start")>>>>,
     <<"Link", <<"Normal", Lit("lost"), Lit("Nowhere")>>>>,
     <<"Link", <<"Normal", Lit("spin"), Lit("Spin")>>>> >>,
   actions |-> <<>>]

LabPage ==
  [content |-> <<
     <<"If", <<"lt", "n", 1>>, << <<"Text", Lit("low")>> >> >>,
     <<"ElseIf", <<"lt", "n", 2>>, << <<"Text", Lit("mid")>> >> >>,
     <<"Else", << <<"Text", Lit("high")>> >> >>,
     <<"Set", FALSE, "l", <<>>, Const(ListV(<<IntV(0), IntV(0)>>))>>,
     <<"Set", FALSE, "l", <<Const(IntV(1))>>, Const(IntV(2))>>,
     <<"Set", TRUE, "l", <<Const(IntV(0))>>, Const(IntV(1))>>,
     <<"For", <<"i">>, "e", <<"var", "l">>, << <<"Text", Show("e")>> >> >>,
     <<"While", <<"lt", "w", 2>>,
        << <<"Set", TRUE, "w", <<>>, <<"add", "w", 1>>>>, <<"Text", Show("w")>> >> >>,
     <<"Import", Lit("Note")>>,
     <<"Import", Lit("Nowhere")>> >>,
   actions |-> <<>>]

NotePage ==
  [content |-> <<
     <<"Text", Lit("note")>>,
     <<"Set", TRUE, "m", <<>>, Const(IntV(1))>>,
     <<"Error", "oops">> >>,
   actions |-> <<>>]

ExitPage ==
  [content |-> << <<"Text", Lit("out")>>, <<"Goto", Lit("Nowhere")>> >>,
   actions |-> <<>>]

SpinPage == [content |-> << <<"Goto", Lit("Spin")>> >>, actions |-> <<>>]

WaitPage ==
  [content |-> << <<"While", Const(IntV(1)), << <<"Text", Lit("tick")>> >> >> >>,
   actions |-> <<>>]

EchoPage ==
  [content |-> << <<"Text", Lit("e")>>, <<"Import", Lit("Echo")>> >>,
   actions |-> <<>>]

\* a link whose action block redirects from inside a While, inside an ElseIf,
\* inside a For, through an imported page
GatePage ==
  [content |-> << <<"Link", <<"Content", Lit("enter"), PageAction("Gate", 0)>>>> >>,
   actions |-> <<
     << <<"For", <<"i">>, "e", Const(ListV(<<IntV(0), IntV(1), IntV(2)>>)), <<
           <<"Text", Show("e")>>,
           <<"If", <<"lt", "e", 1>>, <<>> >>,
           <<"ElseIf", <<"lt", "e", 2>>, <<
              <<"While", Const(IntV(1)), <<
                 <<"Import", Lit("Hop")>>,
                 <<"Text", Lit("again")>> >> >>,
              <<"Text", Lit("then")>> >> >>,
           <<"Set", FALSE, "late", <<>>, <<"var", "e">>>> >> >>,
        <<"Set", FALSE, "done", <<>>, Const(IntV(1))>>,
        <<"Text", Lit("end")>> >> >>]

HopPage ==
  [content |-> <<
     <<"For", <<>>, "f", Const(ListV(<<IntV(1)>>)), <<>> >>,
     <<"Set", TRUE, "h", <<>>, Const(IntV(2))>>,
     <<"Text", Lit("hop")>>,
     <<"If", Const(IntV(0)), <<>> >>,
     <<"Else", << <<"Goto", Lit("Nowhere")>>, <<"Text", Lit("no")>> >> >>,
     <<"Text", Lit("after")>> >>,
   actions |-> <<>>]

\* an input whose action block is a conditional chain on the value entered:
\* its first body makes the second condition true, its second body redirects
ForkPage ==
  [content |-> << <<"Link", <<"Input", "x", PageAction("Fork", 0)>>>> >>,
   actions |-> <<
     << <<"If", <<"lt", "x", 2>>, <<
           <<"Text", Lit("a")>>,
           <<"Set", TRUE, "x", <<>>, Const(IntV(2))>> >> >>,
        <<"ElseIf", <<"lt", "x", 3>>, <<
           <<"Text", Lit("b")>>,
           <<"Set", TRUE, "k", <<>>, Const(IntV(1))>>,
           <<"Goto", Lit("Note")>> >> >>,
        <<"Else", << <<"Text", Lit("c")>> >> >>,
        <<"Text", Lit("end")>> >> >>]

\* two pages that redirect to each other
PingPage ==
  [content |-> << <<"Text", Lit("ping")>>, <<"Goto", Lit("Pong")>> >>, actions |-> <<>>]
PongPage ==
  [content |-> << <<"Text", Lit("pong")>>, <<"Goto", Lit("Ping")>> >>, actions |-> <<>>]

\* a page that redirects to itself until it has counted to 2
RetryPage ==
  [content |-> <<
     <<"If", <<"lt", "t", 2>>, <<
        <<"Set", FALSE, "t", <<>>, <<"add", "t", 1>>>>,
        <<"Goto", Lit("Retry")>> >> >>,
     <<"Text", Lit("done")>> >>,
   actions |-> <<>>]

Titles ==
  {"Start", "C1", "C2", "C3", "Count", "Lab", "Note", "Exit", "Spin", "Wait", "Echo",
   "Gate", "Hop", "Fork", "Ping", "Pong", "Retry"}

\* Story.pages
Pages ==
  [t \in Titles |->
     CASE t = "Start" -> StartPage
       [] t = "C1" -> C1Page
       [] t = "C2" -> C2Page
       [] t = "C3" -> C3Page
       [] t = "Count" -> CountPage
       [] t = "Lab" -> LabPage
       [] t = "Note" -> NotePage
       [] t = "Exit" -> ExitPage
       [] t = "Spin" -> SpinPage
       [] t = "Wait" -> WaitPage
       [] t = "Echo" -> EchoPage
       [] t = "Gate" -> GatePage
       [] t = "Hop" -> HopPage
       [] t = "Fork" -> ForkPage
       [] t = "Ping" -> PingPage
       [] t = "Pong" -> PongPage
       [] t = "Retry" -> RetryPage]

\* Story::get_action
get_action(action) ==
  IF action.page \in DOMAIN Pages /\ action.index < Len(Pages[action.page].actions)
  THEN <<Pages[action.page].actions[action.index + 1]>>
  ELSE <<>>

(***************************************************************************)
(* enum StoryAction, struct StoryResult.  The field status is not in the   *)
(* source: it records how the call ended.  "ok": it returned; "loop": it   *)
(* runs for ever (the same variables came back at the head of a loop whose  *)
(* condition still holds); "overflow": unbounded recursion (an Import      *)
(* reached again, with the same variables, while it is still being         *)
(* evaluated); "bound": an integer above MaxVal was stored.                *)
(***************************************************************************)
Halt == <<"Halt">>
Goto(page) == <<"Goto", page>>

\* StoryResult::new
NewResult == [output |-> <<>>, action |-> Halt, status |-> "ok"]

\* StoryResult::combine
combine(self, result) ==
  [output |-> self.output \o result.output, action |-> result.action,
   status |-> result.status]

\* StoryResult::push
push(self, element) == [self EXCEPT !.output = Append(@, element)]

Stopped(result) == result.status # "ok" \/ result.action[1] = "Goto"

\* the variables an evaluation depends on
VarsOf(st) == <<st.global, st.local>>

TooBig(value) == value[1] = "int" /\ value[2] > MaxVal

(***************************************************************************)
(* Interpreter::eval.  Eval(content, st, stack) is the call                *)
(* self.eval(content) made in state st; stack is the set of imports being  *)
(* evaluated.  It yields the state after the call and the StoryResult.     *)
(***************************************************************************)
RECURSIVE Eval(_, _, _)
RECURSIVE Walk(_, _, _, _, _, _)
RECURSIVE ForLoop(_, _, _, _, _, _)
RECURSIVE WhileLoop(_, _, _, _, _)

\* Content::Link: the element a link renders as
LinkElement(link, st) ==
  CASE link[1] = "Normal" -> <<"Link", TextEval(link[2], st), TextEval(link[3], st)>>
    [] link[1] = "Content" -> <<"ContentLink", TextEval(link[2], st), link[3]>>
    [] link[1] = "JumpLink" ->
         <<"JumpLink", TextEval(link[2], st), TextEval(link[3], st), link[4]>>
    [] link[1] = "Input" -> <<"Input", link[2], link[3]>>

\* result.combine(r) for the result r of a nested self.eval
Merge(result, r) == [st |-> r.st, result |-> combine(result, r.result)]

\* a body evaluated and merged: let r = self.eval(content); result.combine(r)
Body(content, st, result, stack) == Merge(result, Eval(content, st, stack))

\* the imported page evaluated as the current page, then the page set back
Left(r, page) == [r EXCEPT !.st.current_page = page]
ImportNode_enters(element, st, result, stack) ==
  IF TextEval(element[2], st) \notin DOMAIN Pages THEN [st |-> st, result |-> result]
  ELSE IF <<TextEval(element[2], st), VarsOf(st)>> \in stack
       THEN [st |-> st, result |-> [result EXCEPT !.status = "overflow"]]
       ELSE Left(Body(Pages[TextEval(element[2], st)].content,
                      [st EXCEPT !.current_page = TextEval(element[2], st)], result,
                      stack \cup {<<TextEval(element[2], st), VarsOf(st)>>}),
                 st.current_page)

\* Content::Import
ImportNode(element, st, result, stack) ==
  LET title == TextEval(element[2], st)
      frame == <<title, VarsOf(st)>>
  IN IF title \notin DOMAIN Pages THEN [st |-> st, result |-> result]
     ELSE IF frame \in stack
          THEN [st |-> st, result |-> [result EXCEPT !.status = "overflow"]]
          ELSE Body(Pages[title].content, st, result, stack \cup {frame})

\* Content::Set
SetNode(element, st, result) ==
  LET value == ExprEval(element[5], st)
      ind == [k \in 1..Len(element[4]) |-> ExprEval(element[4][k], st)]
  IN IF TooBig(value) THEN [st |-> st, result |-> [result EXCEPT !.status = "bound"]]
     ELSE [st |-> IF element[2] THEN set_local_index(st, element[3], ind, value)
                  ELSE set_index(st, element[3], ind, value),
           result |-> result]

\* the bindings of one iteration of Content::For
Bind(element, pair, st) ==
  set_local(IF Len(element[2]) > 0 THEN set_local(st, element[2][1], pair[1]) ELSE st,
            element[3], pair[2])

\* Content::For after the k-th iteration left r: break on Goto, else go on
ForNext(pairs, k, element, r, stack) ==
  IF Stopped(r.result) THEN r
  ELSE ForLoop(pairs, k + 1, element, r.st, r.result, stack)

\* Content::For: the iterations from the k-th pair on
ForLoop(pairs, k, element, st, result, stack) ==
  IF k > Len(pairs) THEN [st |-> st, result |-> result]
  ELSE ForNext(pairs, k, element,
               Body(element[5], Bind(element, pairs[k], st), result, stack), stack)

\* Content::While after an iteration left r: break on Goto, else test again
WhileNext(element, r, stack, seen) ==
  IF Stopped(r.result) THEN r
  ELSE WhileLoop(element, r.st, r.result, stack, seen)

\* a While that gives up after its first iteration
WhileLoop_capped(element, st, result, stack, seen) ==
  IF ~IsTrue(ExprEval(element[2], st)) \/ seen # {} THEN [st |-> st, result |-> result]
  ELSE WhileNext(element, Body(element[3], st, result, stack), stack,
                 seen \cup {VarsOf(st)})

\* Content::While: the loop from its head, seen the variables at earlier heads
WhileLoop(element, st, result, stack, seen) ==
  IF ~IsTrue(ExprEval(element[2], st)) THEN [st |-> st, result |-> result]
  ELSE IF VarsOf(st) \in seen
       THEN [st |-> st, result |-> [result EXCEPT !.status = "loop"]]
       ELSE WhileNext(element, Body(element[3], st, result, stack), stack,
                      seen \cup {VarsOf(st)})

\* the walk's variables after a node: state, result and if_action
After(r, if_action) == [st |-> r.st, result |-> r.result, if_action |-> if_action]

\* Some(expression.eval(&self.state).is_true())
Test(expression, st) == IF IsTrue(ExprEval(expression, st)) THEN "true" ELSE "false"

\* an If or ElseIf that leaves if_action at Some(false) after running its body
IfNode_drops_flag(element, st, result, stack, cond) ==
  IF cond = "true" THEN After(Body(element[3], st, result, stack), "false")
  ELSE After([st |-> st, result |-> result], cond)

\* Content::If, and Content::ElseIf when if_action is Some(false)
IfNode(element, st, result, stack, cond) ==
  IF cond = "true" THEN After(Body(element[3], st, result, stack), cond)
  ELSE After([st |-> st, result |-> result], cond)

\* one arm of the match in eval; if_action is "none", "true" or "false"
Node(element, st, result, if_action, stack) ==
  LET keep == [st |-> st, result |-> result, if_action |-> if_action]
  IN CASE element[1] = "Text" ->
            [keep EXCEPT !.result = push(result, <<"Text", TextEval(element[2], st)>>)]
       [] element[1] = "Link" ->
            [keep EXCEPT !.result = push(result, LinkElement(element[2], st))]
       [] element[1] = "Goto" ->
            [keep EXCEPT !.result.action = Goto(TextEval(element[2], st))]
       [] element[1] = "Import" -> After(ImportNode(element, st, result, stack), if_action)
       [] element[1] = "Set" -> After(SetNode(element, st, result), if_action)
       [] element[1] \in {"If", "ElseIf"} ->
            IF element[1] = "If" \/ if_action = "false"
            THEN IfNode(element, st, result, stack, Test(element[2], st))
            ELSE keep
       [] element[1] = "Else" ->
            IF if_action = "false"
            THEN After(Body(element[2], st, result, stack), "none")
            ELSE keep
       [] element[1] = "For" ->
            After(ForLoop(Iter(ExprEval(element[4], st)), 1, element, st, result, stack),
                  if_action)
       [] element[1] = "While" ->
            After(WhileLoop(element, st, result, stack, {}), if_action)
       [] element[1] = "Error" ->
            [keep EXCEPT !.result = push(result, <<"Error", element[2]>>)]

\* the end of a loop turn that goes on to the next node after a Goto
WalkNext_goes_on(content, k, n, stack) ==
  IF n.result.status # "ok" THEN [st |-> n.st, result |-> n.result]
  ELSE Walk(content, k + 1, n.st, n.result, n.if_action, stack)

\* the end of a loop turn in eval: return on Goto, else the next node
WalkNext(content, k, n, stack) ==
  IF Stopped(n.result) THEN [st |-> n.st, result |-> n.result]
  ELSE Walk(content, k + 1, n.st, n.result, n.if_action, stack)

\* the for loop of eval from the k-th node of content on
Walk(content, k, st, result, if_action, stack) ==
  IF k > Len(content) THEN [st |-> st, result |-> result]
  ELSE WalkNext(content, k, Node(content[k], st, result, if_action, stack), stack)

Eval(content, st, stack) == Walk(content, 1, st, NewResult, "none", stack)

(***************************************************************************)
(* Interpreter::play, process_result and send, as functions of the State.  *)
(* Each yields the state the call leaves and how the call ended.           *)
(***************************************************************************)
RECURSIVE PlayLoop(_, _)

\* the loop body without self.state.output.clear() on Goto
PlayTurn_no_clear(r, seen) ==
  IF r.result.status # "ok"
  THEN [st |-> [r.st EXCEPT !.output = @ \o r.result.output], status |-> r.result.status]
  ELSE IF r.result.action = Halt
       THEN [st |-> [r.st EXCEPT !.output = @ \o r.result.output], status |-> "ok"]
       ELSE PlayLoop([r.st EXCEPT !.output = @ \o r.result.output,
                                  !.current_page = r.result.action[2]], seen)

\* the body of the loop of play once the page's content was evaluated to r
PlayTurn(r, seen) ==
  IF r.result.status # "ok"
  THEN [st |-> [r.st EXCEPT !.output = @ \o r.result.output], status |-> r.result.status]
  ELSE IF r.result.action = Halt
       THEN [st |-> [r.st EXCEPT !.output = @ \o r.result.output], status |-> "ok"]
       ELSE PlayLoop([r.st EXCEPT !.output = <<>>, !.current_page = r.result.action[2]],
                     seen)

\* the loop breaking on an unregistered page without the Error element
PlayLoop_silent(st, seen) ==
  IF st.current_page \in DOMAIN Pages
  THEN IF <<st.current_page, VarsOf(st)>> \in seen THEN [st |-> st, status |-> "loop"]
       ELSE PlayTurn(Eval(Pages[st.current_page].content, st, {}),
                     seen \cup {<<st.current_page, VarsOf(st)>>})
  ELSE [st |-> st, status |-> "ok"]

\* the loop with a guard: it returns when it comes to a page it has rendered
PlayLoop_guarded(st, seen) ==
  IF st.current_page \in DOMAIN Pages
  THEN IF \E head \in seen : head[1] = st.current_page THEN [st |-> st, status |-> "ok"]
       ELSE PlayTurn(Eval(Pages[st.current_page].content, st, {}),
                     seen \cup {<<st.current_page, VarsOf(st)>>})
  ELSE [st |-> [st EXCEPT !.output =
                  Append(@, <<"Error", "Invalid page: '" \o st.current_page \o "'">>)],
        status |-> "ok"]

\* the loop of play from its head, seen the (page, variables) of earlier heads
PlayLoop(st, seen) ==
  IF st.current_page \in DOMAIN Pages
  THEN IF <<st.current_page, VarsOf(st)>> \in seen THEN [st |-> st, status |-> "loop"]
       ELSE PlayTurn(Eval(Pages[st.current_page].content, st, {}),
                     seen \cup {<<st.current_page, VarsOf(st)>>})
  ELSE [st |-> [st EXCEPT !.output =
                  Append(@, <<"Error", "Invalid page: '" \o st.current_page \o "'">>)],
        status |-> "ok"]

\* play without the leading self.state.output.clear()
play_no_clear(st) == PlayLoop(st, {})

\* Interpreter::play
play(st) == PlayLoop([st EXCEPT !.output = <<>>], {})

\* splice inserting at from without removing from..to
splice_insert(v, from, to, with) == SubSeq(v, 1, from) \o with \o SubSeq(v, from + 1, Len(v))

\* Vec::splice(from..to, with), 0-based half-open range
splice(v, from, to, with) == SubSeq(v, 1, from) \o with \o SubSeq(v, to + 1, Len(v))

\* the action's output dropped in place of the splice at the front
Prepend_dropped(p, output) == p

\* self.state.output.splice(0..0, result.output) once self.play() is over
Prepend(p, output) ==
  [st |-> [p.st EXCEPT !.output = splice(@, 0, 0, output)], status |-> p.status]

\* Interpreter::process_result, st the state eval left
process_result(st, result, index) ==
  IF result.status # "ok" THEN [st |-> st, status |-> result.status]
  ELSE IF result.action = Halt
       THEN [st |-> [st EXCEPT !.output = splice(@, index, index + 1, result.output)],
             status |-> "ok"]
       ELSE Prepend(play([st EXCEPT !.current_page = result.action[2]]), result.output)

\* get clamping the index to the last element
VecGet_clamped(v, index) ==
  IF Len(v) = 0 THEN <<>> ELSE IF index < Len(v) THEN <<v[index + 1]>> ELSE <<v[Len(v)]>>

\* Vec::get
VecGet(v, index) == IF index < Len(v) THEN <<v[index + 1]>> ELSE <<>>

\* the JumpLink arm without result.action = Goto(destination)
Process_unforced(r, forced, index) == process_result(r.st, r.result, index)

\* let result = self.eval(content); self.process_result(result, index), where a
\* JumpLink first sets result.action (forced is Some(Goto(destination)))
Process(r, forced, index) ==
  process_result(r.st,
                 IF Len(forced) = 0 THEN r.result ELSE [r.result EXCEPT !.action = forced[1]],
                 index)

\* the arms of send that evaluate a bound action: before is the state eval starts in
Run(content, before, forced, index, unchanged) ==
  IF Len(content) = 0 THEN unchanged
  ELSE Process(Eval(content[1], before, {}), forced, index)

\* the Link arm playing without self.state.current_page = destination
LinkArm_stays(st, destination) == play(st)

\* the Link arm of send
LinkArm(st, destination) == play([st EXCEPT !.current_page = destination])

\* the Input arm evaluating the action without self.state.set_local(&variable, value)
InputArm_no_write(st, e, index, value) ==
  Run(get_action(e[3]), st, <<>>, index, [st |-> st, status |-> "ok"])

\* the Input arm of send
InputArm(st, e, index, value) ==
  Run(get_action(e[3]), set_local(st, e[2], value), <<>>, index,
      [st |-> st, status |-> "ok"])

\* Interpreter::send
send(st, index, value) ==
  LET element == VecGet(st.output, index)
      kind == IF Len(element) = 0 THEN "None" ELSE element[1][1]
      e == element[1]
      unchanged == [st |-> st, status |-> "ok"]
  IN CASE kind = "Link" -> LinkArm(st, e[3])
       [] kind = "ContentLink" -> Run(get_action(e[3]), st, <<>>, index, unchanged)
       [] kind = "JumpLink" -> Run(get_action(e[4]), st, <<Goto(e[3])>>, index, unchanged)
       [] kind = "Input" -> InputArm(st, e, index, value)
       [] OTHER -> unchanged

(***************************************************************************)
(* Interpreter::dump_state and load_state.  A JSON object is the set of    *)
(* its (name, value) members: to_string writes a HashMap as an object and  *)
(* from_str reads an object back into a HashMap.  A payload is             *)
(* <<"doc", document>> or <<"garbage">>, text that is not JSON.            *)
(***************************************************************************)
\* Serialize for HashMap<String, V>: the object with one member per key
ToObject(m) == {<<k, m[k]>> : k \in DOMAIN m}
\* Deserialize for HashMap<String, V>: the map with one key per member
FromObject(o) == [k \in {mem[1] : mem \in o} |-> (CHOOSE mem \in o : mem[1] = k)[2]]

\* Serialize and Deserialize for State.local, a map of maps
WriteLocal(local) == ToObject([page \in DOMAIN local |-> ToObject(local[page])])
ReadScopes(scopes) == [page \in DOMAIN scopes |-> FromObject(scopes[page])]
ReadLocal(o) == ReadScopes(FromObject(o))

\* Serialize for Element, #[serde(tag = "type", content = "value")]: a
\* one-field variant has its field as value, the others the list of their fields
WriteElement(e) == [type |-> e[1], value |-> IF Len(e) = 2 THEN e[2] ELSE Tail(e)]
\* the variants of Element with one field, and the field count of the others
Newtypes == {"Text", "Error"}
Fields == [Link |-> 2, ContentLink |-> 2, JumpLink |-> 3, Input |-> 2]
\* Deserialize for Element accepts the object
IsElement(o) ==
  /\ DOMAIN o = {"type", "value"}
  /\ o.type \in Newtypes \cup DOMAIN Fields
  /\ o.type \in DOMAIN Fields => Len(o.value) = Fields[o.type]
\* Deserialize for Element
ReadElement(o) == IF o.type \in Newtypes THEN <<o.type, o.value>> ELSE <<o.type>> \o o.value

\* to_string for a State whose output field is left out of the document
to_string_skips_output(st) ==
  <<"doc", [current_page |-> st.current_page,
            global |-> ToObject(st.global),
            local |-> WriteLocal(st.local),
            output |-> <<>>]>>

\* serde_json::to_string(&self.state); a Value and a PageAction are written
\* by their own impls (not in src/) and stand for their own JSON here
to_string(st) ==
  <<"doc", [current_page |-> st.current_page,
            global |-> ToObject(st.global),
            local |-> WriteLocal(st.local),
            output |-> [k \in 1..Len(st.output) |-> WriteElement(st.output[k])]]>>

\* the payload has every field of State, and elements in its output
IsState(json) ==
  /\ json[1] = "doc"
  /\ {"current_page", "global", "local", "output"} \subseteq DOMAIN json[2]
  /\ \A k \in 1..Len(json[2].output) : IsElement(json[2].output[k])

\* serde_json::from_str::<State>: <<the state>>, or <<>> for an Err
from_str(json) ==
  IF IsState(json)
  THEN <<[current_page |-> json[2].current_page,
          global |-> FromObject(json[2].global),
          local |-> ReadLocal(json[2].local),
          output |-> [k \in 1..Len(json[2].output) |-> ReadElement(json[2].output[k])]]>>
  ELSE <<>>

\* a snapshot of a session of another story: its actions are not this story's
ForeignDoc ==
  <<"doc", [current_page |-> "Start",
            global |-> {<<"g", IntV(1)>>},
            local |-> {<<"Start", {<<"seen", IntV(1)>>}>>},
            output |-> << [type |-> "Text", value |-> "old"],
                          [type |-> "Input", value |-> <<"x", PageAction("Ghost", 0)>>],
                          [type |-> "ContentLink", value |-> <<"c", PageAction("Start", 7)>>],
                          [type |-> "JumpLink", value |-> <<"j", "C2", PageAction("C2", 0)>>],
                          [type |-> "Link", value |-> <<"l", "C2">>],
                          [type |-> "Error", value |-> "e"] >>]>>

\* a document cut short: it has no output field
TruncatedDoc ==
  <<"doc", [current_page |-> "C2", global |-> {<<"g", IntV(2)>>}, local |-> {}]>>

\* a document whose last element is of no variant of Element
BadElementDoc ==
  <<"doc", [current_page |-> "C2",
            global |-> {<<"g", IntV(2)>>},
            local |-> {},
            output |-> << [type |-> "Text", value |-> "new"],
                          [type |-> "Image", value |-> "x"] >>]>>

Garbage == <<"garbage">>

(***************************************************************************)
(* Story::new.  A source is the sequence of its lines, a line and a title  *)
(* the sequence of their characters; the locals of the scan are a record,  *)
(* an Option a sequence of length 0 or 1, error the Err the scan returned. *)
(***************************************************************************)
\* most lines a source is tried with
MaxLines == 4

RECURSIVE Hashes(_)
\* the length of the run of # a line starts with
Hashes(line) == IF Len(line) > 0 /\ line[1] = "#" THEN 1 + Hashes(Tail(line)) ELSE 0

\* HEADER_REGEX.captures(line).is_some(): ^#+ followed by at least one character
IsHeader(line) == Hashes(line) >= 1 /\ Len(line) >= 2

RECURSIVE TrimStart(_)
TrimStart(s) == IF Len(s) > 0 /\ s[1] = " " THEN TrimStart(Tail(s)) ELSE s
RECURSIVE TrimEnd(_)
TrimEnd(s) ==
  IF Len(s) > 0 /\ s[Len(s)] = " " THEN TrimEnd(SubSeq(s, 1, Len(s) - 1)) ELSE s
\* str::trim
Trim(s) == TrimEnd(TrimStart(s))

\* the group title: #+ is greedy but leaves one character to .+
Group(line, hashes) == SubSeq(line, (IF hashes < Len(line) THEN hashes ELSE hashes - 1) + 1, Len(line))
\* capture.name("title").unwrap().as_str().trim()
Capture(line) == Trim(Group(line, Hashes(line)))

\* a body line the page parser refuses
BadLine == <<"!">>
\* Page::parse(title, content): the page, or the lines up to the refused one
PageParse(title, content) ==
  IF \E k \in 1..Len(content) : content[k] = BadLine
  THEN <<"Err", CHOOSE k \in 1..Len(content) :
                  content[k] = BadLine /\ \A j \in 1..(k - 1) : content[j] # BadLine>>
  ELSE <<"Ok", [title |-> title, body |-> content]>>

\* Story::parse_page
ParsePage(r, line_number, title) ==
  IF r[1] = "Ok" THEN r ELSE <<"Err", <<"Content", title, line_number + r[2]>>>>
parse_page(line_number, title, content) ==
  ParsePage(PageParse(title, content), line_number, title)

\* the locals of Story::new before the loop
Locals ==
  [pages |-> EmptyMap, content_acumulator |-> <<>>, first_page |-> <<>>,
   current_page |-> <<>>, page_line |-> 1, error |-> <<>>]

\* let page = Self::parse_page(..)?; pages.insert(title.to_string(), page)
Parsed(s, page) ==
  IF page[1] = "Err" THEN [s EXCEPT !.error = <<page[2]>>]
  ELSE [s EXCEPT !.pages = MapInsert(@, s.current_page[1], page[2]),
                 !.content_acumulator = <<>>]
\* if let Some(title) = current_page { ... }
Insert(s) ==
  IF s.current_page = <<>> THEN s
  ELSE Parsed(s, parse_page(s.page_line, s.current_page[1], s.content_acumulator))

\* the rest of a header line, the page before it inserted as t
Open(t, line_number, title) ==
  IF t.error # <<>> THEN t
  ELSE IF title \in DOMAIN t.pages
       THEN [t EXCEPT !.page_line = line_number + 1,
                      !.error = << <<"DuplicatePage", title, line_number + 1>> >>]
       ELSE [t EXCEPT !.page_line = line_number + 1,
                      !.first_page = IF @ = <<>> THEN t.current_page ELSE @,
                      !.current_page = <<title>>]

\* a header line whose title is looked up before the page before it is inserted
Header_checks_first(s, line_number, line) ==
  IF Capture(line) \in DOMAIN s.pages
  THEN [s EXCEPT !.error = << <<"DuplicatePage", Capture(line), line_number + 1>> >>]
  ELSE Open([Insert(s) EXCEPT !.pages = [k \in DOMAIN @ \ {Capture(line)} |-> @[k]]],
            line_number, Capture(line))

\* the loop body for a line that is a header
Header(s, line_number, line) == Open(Insert(s), line_number, Capture(line))

\* the loop body
Line(s, line_number, line) ==
  IF IsHeader(line) THEN Header(s, line_number, line)
  ELSE IF s.current_page # <<>>
       THEN [s EXCEPT !.content_acumulator = Append(@, line)]
       ELSE s

RECURSIVE Scan(_, _, _)
\* for (line_number, line) in source.lines().enumerate(), from line_number on
Scan(src, line_number, s) ==
  IF s.error # <<>> \/ line_number >= Len(src) THEN s
  ELSE Scan(src, line_number + 1, Line(s, line_number, src[line_number + 1]))

\* Story {pages, first_page}, the last page inserted as t
Built(t) ==
  IF t.error # <<>> THEN <<"Err", t.error[1]>>
  ELSE <<"Ok", [pages |-> t.pages,
                first_page |-> IF t.first_page # <<>> THEN t.first_page[1]
                               ELSE IF t.current_page # <<>> THEN t.current_page[1]
                               ELSE <<>>]>>

\* the end of Story::new without its `if first_page == None`
Finish_unset(s) ==
  IF s.error # <<>> THEN <<"Err", s.error[1]>>
  ELSE Built([Insert(s) EXCEPT !.current_page = <<>>])

\* Story::new after the loop
Finish(s) == IF s.error # <<>> THEN <<"Err", s.error[1]>> ELSE Built(Insert(s))

\* Story::new
Story_new(src) == Finish(Scan(src, 0, Locals))

\* the lines sources are made of
SourceLines ==
  { <<"#", "A">>, <<"#", " ", "A", " ">>, <<"#", "#", "B">>, <<"#", "#">>,
    <<"#", " ">>, <<"A">>, <<"#">>, BadLine }
Sources == UNION {[1..n -> SourceLines] : n \in 0..MaxLines}

(***************************************************************************)
(* The session.  state is Interpreter.state; mode is "ready" between       *)
(* calls, "hung" once a call never returns, "crashed" once a call has      *)
(* overflowed the stack.  snapshot is the last dump_state result the host  *)
(* still holds (<<>> when none): the host drops it at the next play or     *)
(* send.  last and prev record the last call and the state it was made in;  *)
(* last.again tells that the call before it was the same operation.        *)
(* source is the text Story::new is called with and built what it returned *)
(* (<<>> before the call); a session is given its story ready-made.        *)
(***************************************************************************)
VARIABLES state, mode, snapshot, last, prev, source, built

vars == <<state, mode, snapshot, last, prev, source, built>>

SendValues == {IntV(1), IntV(2)}

Call(op, index, value) ==
  [op |-> op, index |-> index, value |-> value, again |-> op = last.op]

\* Interpreter::new, for the story whose first header is first_page
Init ==
  /\ \E first_page \in Titles : state = NewState(first_page)
  /\ mode = "ready"
  /\ snapshot = <<>>
  /\ last = [op |-> "new", index |-> 0, value |-> Null, again |-> FALSE]
  /\ prev = state
  /\ source = <<>>
  /\ built = <<>>

\* how a call of play or send ends
Returns(r) == r.status = "ok" /\ state' = r.st /\ mode' = "ready"
NeverReturns(r) == r.status = "loop" /\ mode' = "hung" /\ UNCHANGED state
Overflows(r) == r.status = "overflow" /\ mode' = "crashed" /\ UNCHANGED state
Ends(r) == Returns(r) \/ NeverReturns(r) \/ Overflows(r)

Play ==
  /\ mode = "ready"
  /\ Ends(play(state))
  /\ last' = Call("play", 0, Null)
  /\ prev' = state
  /\ snapshot' = <<>>
  /\ UNCHANGED <<source, built>>

Send(index, value) ==
  /\ mode = "ready"
  /\ Ends(send(state, index, value))
  /\ last' = Call("send", index, value)
  /\ prev' = state
  /\ snapshot' = <<>>
  /\ UNCHANGED <<source, built>>

DumpState ==
  /\ mode = "ready"
  /\ snapshot' = <<to_string(state)>>
  /\ last' = Call("dump_state", 0, Null)
  /\ prev' = state
  /\ UNCHANGED <<state, mode, source, built>>

\* load_state replacing the state by an empty one when the payload is refused
Assigns_resets(parsed, json) ==
  /\ state' = IF Len(parsed) = 1 THEN parsed[1] ELSE NewState("")
  /\ last' = Call(IF Len(parsed) = 1 THEN "load_state" ELSE "load_error", 0, json)

\* self.state = serde_json::from_str(json)?; Ok(())
Assigns(parsed, json) ==
  \/ /\ Len(parsed) = 1
     /\ state' = parsed[1]
     /\ last' = Call("load_state", 0, json)
  \/ /\ Len(parsed) = 0
     /\ UNCHANGED state
     /\ last' = Call("load_error", 0, json)

LoadState(json) ==
  /\ mode = "ready"
  /\ Assigns(from_str(json), json)
  /\ prev' = state
  /\ UNCHANGED <<mode, snapshot, source, built>>

\* payloads that are not a State
Malformed == {Garbage, TruncatedDoc, BadElementDoc}

Payloads == {ForeignDoc} \cup Malformed \cup {snapshot[k] : k \in 1..Len(snapshot)}

Next ==
  \/ Play
  \/ \E index \in 0..MaxIndex, value \in SendValues : Send(index, value)
  \/ DumpState
  \/ \E json \in Payloads : LoadState(json)

Spec == Init /\ [][Next]_vars

(***************************************************************************)
(* The construction of a story: Story::new called once with a source.      *)
(***************************************************************************)
StoryInit ==
  /\ source \in Sources
  /\ built = <<>>
  /\ state = NewState("")
  /\ mode = "ready"
  /\ snapshot = <<>>
  /\ last = [op |-> "none", index |-> 0, value |-> Null, again |-> FALSE]
  /\ prev = state

New ==
  /\ built = <<>>
  /\ built' = <<Story_new(source)>>
  /\ UNCHANGED <<source, state, mode, snapshot, last, prev>>

StoryNext == New

StorySpec == StoryInit /\ [][StoryNext]_vars

(***************************************************************************)
(* What the last call was, read off last and prev.                         *)
(***************************************************************************)
Ready == mode = "ready"
AllPages == Titles \cup {"Nowhere", "Ghost"}
VarNames == {"x", "g", "n", "seen"}

\* the element send looked up, as an Option
Sent == IF last.index < Len(prev.output) THEN <<prev.output[last.index + 1]>> ELSE <<>>
SentKind == IF Len(Sent) = 0 THEN "None" ELSE Sent[1][1]
\* the last call was send on an element of this kind, and it returned
Sends(kind) == Ready /\ last.op = "send" /\ SentKind = kind
\* the last call was play, and it returned
Played == Ready /\ last.op = "play"

\* the PageAction of the selected ContentLink, JumpLink or Input
SentAction == IF SentKind = "JumpLink" THEN Sent[1][4] ELSE Sent[1][3]
SentContent == get_action(SentAction)
Resolved == Len(SentContent) = 1
\* the action block evaluated where send evaluated it
Evaluated(before) == Eval(SentContent[1], before, {})
\* a full render starting at page, from an empty buffer, after the action ran
Rendered(r, page) == play([r.st EXCEPT !.current_page = page, !.output = <<>>])

(***************************************************************************)
(* C1: send on a ContentLink whose action block halts replaces the element *)
(* at the selected index by the elements the block produced; the elements  *)
(* before and after it keep their order and content, and current_page      *)
(* stays.                                                                  *)
(***************************************************************************)
HaltCase(r) == r.result.status = "ok" /\ r.result.action = Halt

Expanded(old, new, i, produced) ==
  /\ Len(new) = Len(old) - 1 + Len(produced)
  /\ \A k \in 1..i : new[k] = old[k]
  /\ \A k \in 1..Len(produced) : new[i + k] = produced[k]
  /\ \A k \in (i + 2)..Len(old) : new[k - 1 + Len(produced)] = old[k]

C1_After(r) ==
  HaltCase(r) =>
    /\ Expanded(prev.output, state.output, last.index, r.result.output)
    /\ state.current_page = prev.current_page

C1_ContentLinkHaltSplices ==
  (Sends("ContentLink") /\ Resolved) => C1_After(Evaluated(prev))

C1_Case(r) ==
  /\ HaltCase(r)
  /\ Len(r.result.output) >= 2
  /\ last.index > 0
  /\ last.index + 1 < Len(prev.output)

C1_Witness == Sends("ContentLink") /\ Resolved /\ C1_Case(Evaluated(prev))

(***************************************************************************)
(* C2: send on a ContentLink whose action block ends in Goto(P) leaves the *)
(* buffer as the block's output followed by the buffer of a full render    *)
(* started at P from an empty buffer, and leaves current_page and the      *)
(* variables as that render leaves them.                                   *)
(***************************************************************************)
GotoCase(r) == r.result.status = "ok" /\ r.result.action[1] = "Goto"

Redirected(r, p) ==
  /\ p.status = "ok"
  /\ state = [p.st EXCEPT !.output = r.result.output \o @]

C2_After(r) == GotoCase(r) => Redirected(r, Rendered(r, r.result.action[2]))

C2_ContentLinkGotoPrepends ==
  (Sends("ContentLink") /\ Resolved) => C2_After(Evaluated(prev))

C2_Case(r) ==
  /\ GotoCase(r)
  /\ Len(r.result.output) > 0
  /\ Len(prev.output) > 0
  /\ r.result.action[2] \in Titles
  /\ state.current_page \notin {r.result.action[2], prev.current_page}

C2_Witness == Sends("ContentLink") /\ Resolved /\ C2_Case(Evaluated(prev))

(***************************************************************************)
(* C3: send on a JumpLink whose action resolves renders the element's own  *)
(* destination, whatever pending action the block produced, and puts the   *)
(* block's output in front of the new buffer.                              *)
(***************************************************************************)
C3_After(r) == r.result.status = "ok" => Redirected(r, Rendered(r, Sent[1][3]))

C3_JumpLinkForcesDestination ==
  (Sends("JumpLink") /\ Resolved) => C3_After(Evaluated(prev))

C3_Case(r) ==
  /\ GotoCase(r)
  /\ r.result.action[2] # Sent[1][3]
  /\ Len(r.result.output) > 0
  /\ state.current_page = Sent[1][3]

C3_Witness == Sends("JumpLink") /\ Resolved /\ C3_Case(Evaluated(prev))

(***************************************************************************)
(* C4: send on a Link sets current_page to the destination and renders it  *)
(* in full: the state is the one play leaves when started at the           *)
(* destination from an empty buffer, registered page or not.               *)
(***************************************************************************)
C4_After(p) == p.status = "ok" /\ state = p.st

C4_LinkRendersDestination ==
  Sends("Link") =>
    C4_After(play([prev EXCEPT !.current_page = Sent[1][3], !.output = <<>>]))

C4_Witness ==
  /\ Sends("Link")
  /\ Sent[1][3] \notin Titles
  /\ Len(prev.output) > 1
  /\ state.current_page = Sent[1][3]
  /\ Len(state.output) = 1

(***************************************************************************)
(* C5: send(i, v) on an Input(variable, action) element whose action       *)
(* resolves writes v under variable in the current page's local scope and  *)
(* then does what send does on a ContentLink with the same action; when    *)
(* the action does not resolve it writes nothing and changes nothing.      *)
(***************************************************************************)
\* local with local[page][name] = value, the page's scope created if missing
Written(local, page, name, value) ==
  [q \in DOMAIN local \cup {page} |->
     IF q # page THEN local[q]
     ELSE [n \in (IF page \in DOMAIN local THEN DOMAIN local[page] ELSE {}) \cup {name} |->
             IF n = name THEN value ELSE local[page][n]]]

\* prev after the write, the Input element turned into a ContentLink
AsContentLink ==
  [prev EXCEPT !.local = Written(@, prev.current_page, Sent[1][2], last.value),
               !.output[last.index + 1] = <<"ContentLink", "", Sent[1][3]>>]

SameSession(a, b) ==
  /\ a.current_page = b.current_page
  /\ a.global = b.global
  /\ a.local = b.local

C5_After(expected) == expected.status = "ok" /\ state = expected.st

C5_InputWritesThenContentLink ==
  Sends("Input") =>
    IF Resolved THEN C5_After(send(AsContentLink, last.index, last.value))
    ELSE state = prev

C5_Witness ==
  /\ Sends("Input")
  /\ Resolved
  /\ Get(prev, prev.current_page, Sent[1][2]) # <<last.value>>
  /\ \E k \in 1..Len(state.output) :
       state.output[k] = <<"Text", Render(last.value)>>

\* the claim as stated: the write is made for every send on an Input element
C5_Every(expected) ==
  /\ expected.status = "ok"
  /\ SameSession(state, expected.st)
  /\ Resolved => state.output = expected.st.output

C5_WriteOnEverySend ==
  Sends("Input") => C5_Every(send(AsContentLink, last.index, last.value))

(***************************************************************************)
(* C6: send is a no-op when the index is out of range of the buffer or the *)
(* element there is a Text or an Error: it returns and the whole state is  *)
(* as before, whatever the value.                                          *)
(***************************************************************************)
C6_SendIsNoOp ==
  (last.op = "send" /\ SentKind \in {"None", "Text", "Error"}) =>
    (Ready /\ state = prev)

C6_Witness ==
  /\ Sends("None")
  /\ Len(prev.output) > 0
  /\ last.index >= Len(prev.output)
  /\ \E k \in 1..Len(prev.output) : prev.output[k][1] \notin {"Text", "Error"}

(***************************************************************************)
(* C7: play started on a chain of pages each ending in Goto to the next    *)
(* shows only what the page it stops on renders, and current_page ends as  *)
(* that page.                                                              *)
(***************************************************************************)
RECURSIVE Landing(_)
LandingNext(st, r) ==
  IF r.result.action = Halt THEN st
  ELSE Landing([r.st EXCEPT !.current_page = r.result.action[2]])

\* the state in which the page a returning play stops on starts its evaluation
Landing(st) ==
  IF st.current_page \notin DOMAIN Pages THEN st
  ELSE LandingNext(st, Eval(Pages[st.current_page].content, st, {}))

C7_After(land) ==
  /\ state.current_page = land.current_page
  /\ land.current_page \in DOMAIN Pages =>
       state.output = Eval(Pages[land.current_page].content, land, {}).result.output

C7_ChainRendersFinalPage == Played => C7_After(Landing(prev))

C7_Witness ==
  /\ Played
  /\ prev.current_page = "C1"
  /\ state.current_page = "C3"
  /\ state.output[1] = <<"Text", "c3">>
  /\ \A k \in 1..Len(state.output) : state.output[k] \notin {<<"Text", "c1">>, <<"Text", "c2">>}

(***************************************************************************)
(* C8: a second play in a row produces the buffer the first produced when  *)
(* the page the first stopped on writes no variable (no Set and no For,    *)
(* in nested bodies and imports too) or is not registered.                 *)
(***************************************************************************)
RECURSIVE Writes(_, _)
\* the content, or a page it imports, holds a node that writes a variable
WritesNode(node, seen) ==
  CASE node[1] \in {"Set", "For"} -> TRUE
    [] node[1] \in {"If", "ElseIf", "While"} -> Writes(node[3], seen)
    [] node[1] = "Else" -> Writes(node[2], seen)
    [] node[1] = "Import" ->
         \/ node[2][1] # "lit"
         \/ /\ node[2][2] \in Titles \ seen
            /\ Writes(Pages[node[2][2]].content, seen \cup {node[2][2]})
    [] OTHER -> FALSE

Writes(content, seen) == \E k \in 1..Len(content) : WritesNode(content[k], seen)

WritesNothing(page) == page \in DOMAIN Pages => ~Writes(Pages[page].content, {})

PlayedAgain == Played /\ last.again

C8_PlayTwiceSameOutput ==
  (PlayedAgain /\ WritesNothing(prev.current_page)) => state.output = prev.output

C8_Witness ==
  /\ PlayedAgain
  /\ prev.current_page \in DOMAIN Pages
  /\ WritesNothing(prev.current_page)
  /\ Len(state.output) > 1
  /\ DOMAIN state.local # {}

\* the claim as stated: for every story and state, Set nodes included
C8_PlayTwiceAlways == PlayedAgain => state.output = prev.output

(***************************************************************************)
(* C9: when play comes to a current_page that is not registered, at once   *)
(* or after redirects, it returns with the buffer holding exactly one      *)
(* Error element that names the page, and current_page is that title; a    *)
(* play after it leaves the same state.                                    *)
(***************************************************************************)
InvalidPage(page) == << <<"Error", "Invalid page: '" \o page \o "'">> >>

C9_After(land) ==
  land.current_page \notin DOMAIN Pages =>
    /\ state.current_page = land.current_page
    /\ state.output = InvalidPage(land.current_page)
    /\ play(state) = [st |-> state, status |-> "ok"]

C9_InvalidPageSingleError == Played => C9_After(Landing(prev))

C9_Witness ==
  /\ Played
  /\ prev.current_page \in DOMAIN Pages
  /\ state.current_page \notin DOMAIN Pages
  /\ state.output = InvalidPage("Nowhere")

(***************************************************************************)
(* C10: a local Set with an empty index path made while the current page   *)
(* is A changes local[A][name] only: read(A, name) yields the value, the   *)
(* global map and every other page's local scope and reads are unchanged.  *)
(***************************************************************************)
\* what a write of name in page's local scope may change between a and b
OnlyLocal(a, b, page, name) ==
  /\ b.global = a.global
  /\ b.current_page = a.current_page
  /\ DOMAIN b.local = DOMAIN a.local \cup {page}
  /\ \A q \in DOMAIN a.local \ {page} : b.local[q] = a.local[q]
  /\ \A q \in AllPages \ {page} : Get(b, q, name) = Get(a, q, name)
  /\ \A n \in VarNames \ {name} : Get(b, page, n) = Get(a, page, n)

C10_Set(name, value) ==
  /\ Get(set_local_index(state, name, <<>>, value), state.current_page, name) = <<value>>
  /\ OnlyLocal(state, set_local_index(state, name, <<>>, value), state.current_page, name)

\* the action block is texts around one local Set of a constant, empty index path
OneLocalSet(content, k) ==
  /\ k \in 1..Len(content)
  /\ content[k][1] = "Set" /\ content[k][2] /\ content[k][4] = <<>>
  /\ content[k][5][1] = "const"
  /\ \A j \in 1..Len(content) : j # k => content[j][1] = "Text"

C10_Ran(node) ==
  /\ Get(state, prev.current_page, node[3]) = <<node[5][2]>>
  /\ OnlyLocal(prev, state, prev.current_page, node[3])

C10_LocalSetIsLocal ==
  /\ \A name \in VarNames, value \in SendValues : C10_Set(name, value)
  /\ (Sends("ContentLink") /\ Resolved) =>
       \A k \in 1..Len(SentContent[1]) :
         OneLocalSet(SentContent[1], k) => C10_Ran(SentContent[1][k])

C10_Witness ==
  /\ Sends("ContentLink")
  /\ Resolved
  /\ \E k \in 1..Len(SentContent[1]) :
       /\ OneLocalSet(SentContent[1], k)
       /\ Get(prev, prev.current_page, SentContent[1][k][3]) = <<>>
       /\ Get(state, prev.current_page, SentContent[1][k][3]) = <<SentContent[1][k][5][2]>>
       /\ Get(state, "C3", SentContent[1][k][3]) = <<>>
       /\ SentContent[1][k][3] \notin DOMAIN state.global

(***************************************************************************)
(* C11: a Set with a non-empty index path whose target does not resolve    *)
(* is dropped: global and local stay as they were, no element is emitted   *)
(* and no error is raised.  The target of a global write is the variable   *)
(* in the global map, that of a local write the variable in the current    *)
(* page's local scope (a global of the same name does not count).  With    *)
(* an empty index path the write is the plain upsert.                      *)
(***************************************************************************)
C11_Names == {"l", "x", "n", "m"}
C11_Paths == {<<IntV(0)>>, <<IntV(2)>>, <<Null>>, <<IntV(1), IntV(0)>>}
PathOf(path) == [k \in 1..Len(path) |-> Const(path[k])]

\* the variable a Set node writes to, if there is one
GlobalTarget(st, name) == MapGet(st.global, name)
LocalTarget(st, name) ==
  IF st.current_page \in DOMAIN st.local
  THEN MapGet(st.local[st.current_page], name) ELSE <<>>
Unresolved(target, path) == Len(target) = 0 \/ ~Resolves(target[1], path)

\* the evaluation r of one node did nothing at all
C11_Dropped(r) == r = [st |-> state, result |-> NewResult]

\* the evaluation r of one node stored value under name, in one map only
C11_Upsert(r, local, name, value) ==
  /\ r.result = NewResult
  /\ r.st.current_page = state.current_page /\ r.st.output = state.output
  /\ IF local
     THEN /\ r.st.global = state.global
          /\ r.st.local = Written(state.local, state.current_page, name, value)
     ELSE /\ r.st.local = state.local
          /\ DOMAIN r.st.global = DOMAIN state.global \cup {name}
          /\ \A n \in DOMAIN r.st.global :
               r.st.global[n] = IF n = name THEN value ELSE state.global[n]

C11_Write(local, name, path, value) ==
  Unresolved(IF local THEN LocalTarget(state, name) ELSE GlobalTarget(state, name), path)
    => C11_Dropped(Eval(<< <<"Set", local, name, PathOf(path), Const(value)>> >>, state, {}))

C11_Plain(local, name, value) ==
  C11_Upsert(Eval(<< <<"Set", local, name, <<>>, Const(value)>> >>, state, {}),
             local, name, value)

C11_UnresolvedWriteDropped ==
  \A local \in BOOLEAN, name \in C11_Names, value \in SendValues :
    /\ C11_Plain(local, name, value)
    /\ \A path \in C11_Paths : C11_Write(local, name, path, value)

\* Lab has been rendered: its indexed write to the global list l went in, its
\* indexed write to a local l, of which there is none, left no trace
C11_Witness ==
  /\ Played
  /\ prev.current_page = "Lab"
  /\ state.current_page = "Lab"
  /\ GlobalTarget(state, "l") = <<ListV(<<IntV(0), IntV(2)>>)>>
  /\ LocalTarget(state, "l") = <<>>
  /\ Unresolved(GlobalTarget(state, "l"), <<IntV(2)>>)
  /\ ~Unresolved(GlobalTarget(state, "l"), <<IntV(0)>>)

(***************************************************************************)
(* C12: load_state given a payload that is not a State reports a failure   *)
(* and leaves current_page, global, local and output as they were before   *)
(* the call, whatever calls came before; no field is overwritten.          *)
(***************************************************************************)
Loaded == last.op \in {"load_state", "load_error"}

C12_MalformedRestoreKeepsState ==
  /\ (Loaded /\ last.value \in Malformed) => last.op = "load_error"
  /\ last.op = "load_error" => (state = prev /\ Ready)

\* a document with a bad last element was refused by a session that had moved
\* on: every field the document would have set differs from it
C12_Witness ==
  /\ last.op = "load_error"
  /\ last.value = BadElementDoc
  /\ state = prev
  /\ state.current_page \notin {"", BadElementDoc[2].current_page}
  /\ state.global # FromObject(BadElementDoc[2].global)
  /\ state.global # EmptyMap
  /\ state.local # EmptyMap
  /\ state.output # <<>>

(***************************************************************************)
(* C13: load_state given what dump_state returned for the state it is      *)
(* called in reproduces that state: the same current page, global map,     *)
(* local map and output buffer, so that later calls of play and send do    *)
(* what they would have done without the round trip.                       *)
(***************************************************************************)
\* the payload of the last load_state is the snapshot taken of prev
RoundTrip ==
  /\ last.op = "load_state"
  /\ snapshot = <<last.value>>
  /\ last.value = to_string(prev)

C13_Same(r, q) == r = q

C13_SnapshotRestoreRoundTrip ==
  RoundTrip =>
    /\ state = prev
    /\ C13_Same(play(state), play(prev))

\* the round trip was made with every kind of element in the buffer and with
\* variables in both maps
C13_Witness ==
  /\ RoundTrip
  /\ state = prev
  /\ state.global # EmptyMap
  /\ state.local # EmptyMap
  /\ {"Text", "Link", "ContentLink", "JumpLink", "Input"}
       \subseteq {state.output[k][1] : k \in 1..Len(state.output)}

(***************************************************************************)
(* The headers of a source, read off the text.                             *)
(***************************************************************************)
HeaderLines(src) == {k \in 1..Len(src) : IsHeader(src[k])}
TitleAt(src, k) == Capture(src[k])
NoDuplicate(src) ==
  \A j, k \in HeaderLines(src) : j # k => TitleAt(src, j) # TitleAt(src, k)
FirstHeader(src) == CHOOSE k \in HeaderLines(src) : \A j \in HeaderLines(src) : k <= j
\* the lines between the header on line k and the next header
BodyOf(src, k) ==
  SubSeq(src, k + 1,
         (CHOOSE e \in k..Len(src) :
            /\ \A j \in (k + 1)..e : j \notin HeaderLines(src)
            /\ e + 1 \in HeaderLines(src) \cup {Len(src) + 1}))
BodyParses(src, k) == \A j \in 1..Len(BodyOf(src, k)) : BodyOf(src, k)[j] # BadLine
Constructed == built # <<>>
Succeeded == Constructed /\ built[1][1] = "Ok"

(***************************************************************************)
(* C14: for a source with N header lines, no two of the same title, and    *)
(* page bodies that parse, Story::new yields exactly N pages, one per      *)
(* header and made of the lines up to the next header, and the entry page  *)
(* is the first header's title whatever N is (N = 1 included); the lines   *)
(* before the first header are in no page and change nothing.              *)
(***************************************************************************)
C14_Story(story) ==
  /\ Cardinality(DOMAIN story.pages) = Cardinality(HeaderLines(source))
  /\ DOMAIN story.pages = {TitleAt(source, k) : k \in HeaderLines(source)}
  /\ \A k \in HeaderLines(source) :
       story.pages[TitleAt(source, k)] =
         [title |-> TitleAt(source, k), body |-> BodyOf(source, k)]
  /\ story.first_page = IF HeaderLines(source) = {} THEN <<>>
                        ELSE TitleAt(source, FirstHeader(source))
  /\ HeaderLines(source) # {} =>
       Story_new(SubSeq(source, FirstHeader(source), Len(source))) = <<"Ok", story>>

C14_PagesAndEntry ==
  (/\ Constructed
   /\ NoDuplicate(source)
   /\ \A k \in HeaderLines(source) : BodyParses(source, k))
    => (Succeeded /\ C14_Story(built[1][2]))

\* one header, after a line the page parser would refuse
C14_Witness ==
  /\ Succeeded
  /\ Cardinality(HeaderLines(source)) = 1
  /\ source[1] = BadLine
  /\ FirstHeader(source) = 3
  /\ built[1][2].first_page = <<"A">>
  /\ Len(built[1][2].pages[<<"A">>].body) = 1

(***************************************************************************)
(* C15: a source in which a title is repeated, next to its first header    *)
(* or pages apart, never yields a story.  Story::new fails with            *)
(* DuplicatePage, the repeated title and the 1-based line of the first     *)
(* repeating header, when the bodies of the pages before that header       *)
(* parse; when one does not, it fails with the Content error of the first  *)
(* such page, found on a line before that header.                          *)
(***************************************************************************)
\* the header lines that repeat the title of a header line above them
Repeats(src) ==
  {k \in HeaderLines(src) : \E j \in HeaderLines(src) : j < k /\ TitleAt(src, j) = TitleAt(src, k)}
FirstRepeat(src) == CHOOSE k \in Repeats(src) : \A j \in Repeats(src) : k <= j
\* the header lines above line k whose page body does not parse
BadAbove(src, k) == {h \in HeaderLines(src) : h < k /\ ~BodyParses(src, h)}
Duplicate(src) == <<"DuplicatePage", TitleAt(src, FirstRepeat(src)), FirstRepeat(src)>>

C15_Failure(error, bad) ==
  IF bad = {} THEN error = Duplicate(source)
  ELSE /\ error[1] = "Content"
       /\ \E h \in bad :
            /\ \A j \in bad : h <= j
            /\ error[2] = TitleAt(source, h)
            /\ error[3] > h /\ error[3] < FirstRepeat(source)
            /\ source[error[3]] = BadLine

C15_DuplicateFails ==
  (Constructed /\ Repeats(source) # {}) =>
    /\ built[1][1] = "Err"
    /\ C15_Failure(built[1][2], BadAbove(source, FirstRepeat(source)))

\* the statement as claimed: the duplicate is what every such failure reports
C15_DuplicateAlwaysReported ==
  (Constructed /\ Repeats(source) # {}) => built[1] = <<"Err", Duplicate(source)>>

\* title A on line 1 and again, spelled with blanks, on line 4, after another page
C15_Witness ==
  /\ Constructed
  /\ HeaderLines(source) = {1, 2, 4}
  /\ source[1] = <<"#", "A">>
  /\ source[4] = <<"#", " ", "A", " ">>
  /\ TitleAt(source, 2) # <<"A">>
  /\ built[1] = <<"Err", <<"DuplicatePage", <<"A">>, 4>>>>

(***************************************************************************)
(* The content sequences of the story, nested bodies included.             *)
(***************************************************************************)
\* the body of a node that has one
InnerOf(element) ==
  CASE element[1] \in {"If", "ElseIf", "While"} -> element[3]
    [] element[1] = "Else" -> element[2]
    [] element[1] = "For" -> element[5]
    [] OTHER -> <<>>

RECURSIVE Inside(_)
Inside(content) ==
  {content} \cup UNION {Inside(InnerOf(content[k])) : k \in 1..Len(content)}

StoryContents ==
  UNION {Inside(Pages[t].content) \cup
         UNION {Inside(Pages[t].actions[i]) : i \in 1..Len(Pages[t].actions)} : t \in Titles}

\* a node that can leave a Goto: a Goto, an Import, or a node with one inside
RECURSIVE MayRedirect(_)
MayRedirect(element) ==
  \/ element[1] \in {"Goto", "Import"}
  \/ \E k \in 1..Len(InnerOf(element)) : MayRedirect(InnerOf(element)[k])

\* the evaluation returned with a Goto pending
Goes(r) == r.result.status = "ok" /\ r.result.action[1] = "Goto"

(***************************************************************************)
(* C16: once a node of a content sequence has left a Goto the walk is      *)
(* over: the sequence evaluates to what its nodes up to that one evaluate   *)
(* to, no later sibling adding an element or a write.  The same through    *)
(* nesting: when the body an If, ElseIf, Else, For or While node enters,   *)
(* or the page an Import node evaluates, leaves a Goto, the node evaluates  *)
(* to just that, later iterations and the Goto's replacement by Halt        *)
(* excluded.                                                               *)
(***************************************************************************)
C16_Same(cut, whole) == Goes(cut) => whole = cut

\* the sequence against its first k nodes
C16_Cut(content, k) ==
  C16_Same(Eval(SubSeq(content, 1, k), state, {}), Eval(content, state, {}))

\* the first evaluation a node makes of a body, in the state it is made in
Entered(element, st) ==
  CASE element[1] \in {"If", "ElseIf", "While"} ->
         IF IsTrue(ExprEval(element[2], st)) THEN <<[content |-> element[3], st |-> st]>>
         ELSE <<>>
    [] element[1] = "Else" -> <<[content |-> element[2], st |-> st]>>
    [] element[1] = "For" ->
         IF Len(Iter(ExprEval(element[4], st))) > 0
         THEN <<[content |-> element[5],
                 st |-> Bind(element, Iter(ExprEval(element[4], st))[1], st)]>>
         ELSE <<>>
    [] element[1] = "Import" ->
         IF TextEval(element[2], st) \in DOMAIN Pages
         THEN <<[content |-> Pages[TextEval(element[2], st)].content, st |-> st]>>
         ELSE <<>>
    [] OTHER -> <<>>

\* the node where it runs: an ElseIf or Else after an If that was false
Placed(element) ==
  IF element[1] \in {"ElseIf", "Else"}
  THEN << <<"If", Const(IntV(0)), <<>> >>, element >>
  ELSE <<element>>

C16_Through(element, entered) ==
  Len(entered) = 1 =>
    C16_Same(Eval(entered[1].content, entered[1].st, {}), Eval(Placed(element), state, {}))

\* the action block of Gate, left from inside its loops through the page Hop
GateLeft ==
  << <<"Text", "0">>, <<"Text", "1">>, <<"Text", "hop">> >> \o InvalidPage("Nowhere")

C16_Gate ==
  (Sends("ContentLink") /\ prev.current_page = "Gate") =>
    /\ state.output = GateLeft
    /\ state.global = [n \in {"late"} |-> IntV(0)]
    /\ Get(state, "Gate", "e") = <<IntV(1)>>

C16_GotoStopsWalk ==
  /\ C16_Gate
  /\ \A content \in StoryContents :
       \A k \in 1..Len(content) :
         MayRedirect(content[k]) =>
           /\ k < Len(content) => C16_Cut(content, k)
           /\ C16_Through(content[k], Entered(content[k], state))

C16_Witness ==
  /\ Sends("ContentLink")
  /\ prev.current_page = "Gate"
  /\ state.current_page = "Nowhere"
  /\ state.output = GateLeft
  /\ "done" \notin DOMAIN state.global
  /\ Goes(Eval(GatePage.actions[1], prev, {}))

(***************************************************************************)
(* C17: a sequence If, ElseIf*, Else? of siblings evaluates as the         *)
(* conditional chain it spells: the body of the first branch whose         *)
(* condition is true in the state the chain is reached in, or the Else     *)
(* body when none is true, or nothing; no second body runs, even when the  *)
(* first body has made a later condition true, and a chain inside a body   *)
(* leaves the enclosing one alone.                                         *)
(***************************************************************************)
IsChain(content) ==
  /\ Len(content) > 0
  /\ content[1][1] = "If"
  /\ \A k \in 2..Len(content) :
       \/ content[k][1] = "ElseIf"
       \/ content[k][1] = "Else" /\ k = Len(content)

\* the branches of a chain that would run if reached in st
OpenBranches(chain, st) ==
  {k \in 1..Len(chain) : chain[k][1] = "Else" \/ IsTrue(ExprEval(chain[k][2], st))}

\* the chain as a conditional: the first open branch alone, if there is one
Picked(chain, st, open) ==
  IF open = {} THEN [st |-> st, result |-> NewResult]
  ELSE Eval(InnerOf(chain[CHOOSE k \in open : \A j \in open : k <= j]), st, {})

C17_Texts(s) == <<"Text", Lit(s)>>
C17_Sets(k) == <<"Set", FALSE, "n", <<>>, Const(IntV(k))>>
C17_Chains ==
  { << <<"If", <<"lt", "n", 1>>, <<C17_Texts("a"), C17_Sets(1)>> >>,
       <<"ElseIf", <<"lt", "n", 2>>, <<C17_Texts("b"), C17_Sets(0)>> >>,
       <<"Else", <<C17_Texts("c"), C17_Sets(0)>> >> >>,
    << <<"If", <<"lt", "n", 1>>, <<C17_Texts("a"), C17_Sets(1)>> >>,
       <<"ElseIf", <<"lt", "n", 2>>, <<C17_Texts("b")>> >> >>,
    << <<"If", <<"lt", "n", 2>>, << <<"If", Const(IntV(0)), <<C17_Texts("x")>> >> >> >>,
       <<"Else", <<C17_Texts("c")>> >> >>,
    << <<"If", <<"lt", "n", 1>>, <<>> >>,
       <<"ElseIf", <<"lt", "n", 2>>,
          << <<"If", Const(IntV(0)), <<>> >>, <<"Else", <<C17_Texts("in")>> >> >> >>,
       <<"ElseIf", Const(IntV(1)), <<C17_Texts("b")>> >>,
       <<"Else", <<C17_Texts("c")>> >> >>,
    SubSeq(LabPage.content, 1, 3),
    SubSeq(HopPage.content, 4, 5),
    SubSeq(ForkPage.actions[1], 1, 3) }

C17_Chain(chain) ==
  /\ IsChain(chain)
  /\ Eval(chain, state, {}) = Picked(chain, state, OpenBranches(chain, state))

\* the action block of Fork, for the value 1: of its chain the first body only
C17_Fork ==
  (Sends("Input") /\ prev.current_page = "Fork" /\ last.value = IntV(1)) =>
    /\ state.output = << <<"Text", "a">>, <<"Text", "end">> >>
    /\ Get(state, "Fork", "x") = <<IntV(2)>>
    /\ state.current_page = "Fork"

C17_FirstTrueBranchRuns ==
  /\ C17_Fork
  /\ \A chain \in C17_Chains : C17_Chain(chain)

\* the If body has run and made the ElseIf condition true
C17_Witness ==
  /\ Sends("Input")
  /\ prev.current_page = "Fork"
  /\ last.value = IntV(1)
  /\ state.output = << <<"Text", "a">>, <<"Text", "end">> >>
  /\ IsTrue(ExprEval(ForkPage.actions[1][2][2], state))

(***************************************************************************)
(* C18: a local write goes to the scope of the page that is current when   *)
(* it is made.  The local Sets and For bindings of a page B imported while *)
(* the current page is A are stored in local[A], local[B] and every other  *)
(* scope staying as they were; the local writes of an action block that    *)
(* redirects to a page P, the Input value included, are stored under the   *)
(* page current when send was called, not under P.                         *)
(***************************************************************************)
\* scope page of a local map, as an Option
Scope(local, page) == MapGet(local, page)

\* between a and b no local scope but that of page has changed
OnlyScope(a, b, page) ==
  /\ DOMAIN b \subseteq DOMAIN a \cup {page}
  /\ \A q \in DOMAIN a \ {page} : q \in DOMAIN b /\ b[q] = a[q]

\* the local variables a page writes when it is evaluated
Wrote(scope, names) ==
  /\ Len(scope) = 1
  /\ names \subseteq DOMAIN scope[1]

C18_Into(r, names) ==
  r.result.status = "ok" =>
    /\ OnlyScope(state.local, r.st.local, state.current_page)
    /\ r.st.global = state.global
    /\ r.st.current_page = state.current_page
    /\ Wrote(Scope(r.st.local, state.current_page), names)

\* page B imported wherever the session is, B not being the current page
C18_Import(title, names) ==
  state.current_page # title =>
    C18_Into(Eval(<< <<"Import", Lit(title)>> >>, state, {}), names)

\* the action block ran from the state before, then redirected
C18_Block(before, r) ==
  GotoCase(r) =>
    /\ OnlyScope(prev.local, r.st.local, prev.current_page)
    /\ OnlyScope(prev.local, before.local, prev.current_page)
    /\ state.local = Rendered(r, r.result.action[2]).st.local

C18_Redirect ==
  /\ (Sends("ContentLink") /\ Resolved) => C18_Block(prev, Evaluated(prev))
  /\ (Sends("Input") /\ Resolved) =>
       /\ Get(AsContentLink, prev.current_page, Sent[1][2]) = <<last.value>>
       /\ Sent[1][2] \in DOMAIN AsContentLink.local[prev.current_page]
       /\ C18_Block(AsContentLink, Evaluated(AsContentLink))

\* the input of Fork given 2: its block sets k and redirects to Note, which
\* sets m
C18_Fork ==
  (Sends("Input") /\ prev.current_page = "Fork" /\ last.value = IntV(2)) =>
    /\ state.current_page = "Note"
    /\ Scope(state.local, "Fork") = <<[n \in {"x", "k"} |-> IF n = "x" THEN IntV(2) ELSE IntV(1)]>>
    /\ Scope(state.local, "Note") = <<[n \in {"m"} |-> IntV(1)]>>

\* the link of Gate: its block imports Hop, which binds f and sets h
C18_Gate ==
  (Sends("ContentLink") /\ prev.current_page = "Gate") =>
    /\ Wrote(Scope(state.local, "Gate"), {"f", "h"})
    /\ Scope(state.local, "Hop") = Scope(prev.local, "Hop")

C18_LocalKeyedByCurrentPage ==
  /\ C18_Import("Note", {"m"})
  /\ C18_Import("Hop", {"f", "h"})
  /\ C18_Redirect
  /\ C18_Fork
  /\ C18_Gate

C18_Witness ==
  /\ Sends("Input")
  /\ prev.current_page = "Fork"
  /\ state.current_page = "Note"
  /\ Get(state, "Fork", "x") = <<last.value>>
  /\ Get(state, "Fork", "k") = <<IntV(1)>>
  /\ Get(state, "Note", "k") = <<>>
  /\ Get(state, "Note", "x") = <<>>
  /\ Get(state, "Fork", "m") = <<>>

(***************************************************************************)
(* C19: a While tests its condition before every iteration and has no cap  *)
(* on their number.  A While on n < k whose body adds 1 to n evaluates its  *)
(* body exactly k - n times (not at all when n >= k) and leaves n at k, for *)
(* every k; a While whose condition holds and whose body changes no        *)
(* variable and has no Goto never leaves the loop, so that a play or send  *)
(* that reaches it never returns.                                          *)
(***************************************************************************)
\* while n < k { n = n + 1; "t" }
Counting(k) ==
  << <<"While", <<"lt", "n", k>>,
        << <<"Set", FALSE, "n", <<>>, <<"add", "n", 1>>>>, <<"Text", Lit("t")>> >> >> >>
\* while n < k { "t" }
Idle(k) == << <<"While", <<"lt", "n", k>>, << <<"Text", Lit("t")>> >> >> >>

\* the value of global n, 0 when there is none
GlobalN(st) == IF "n" \in DOMAIN st.global THEN st.global["n"][2] ELSE 0

C19_Times(r, times, k) ==
  /\ r.result.status = "ok"
  /\ r.result.action = Halt
  /\ r.result.output = [j \in 1..times |-> <<"Text", "t">>]
  /\ times > 0 => GlobalN(r.st) = k
  /\ times = 0 => r.st = state

C19_Counts(k) ==
  C19_Times(Eval(Counting(k), state, {}),
            IF GlobalN(state) < k THEN k - GlobalN(state) ELSE 0, k)

C19_Stays(r, k) ==
  IF GlobalN(state) < k THEN r.result.status = "loop"
  ELSE r = [st |-> state, result |-> NewResult]

\* a call that reached the While of page Wait has not returned
C19_Wait ==
  (last.op = "play" /\ prev.current_page = "Wait") => (mode = "hung" /\ state = prev)

C19_WhileHasNoCap ==
  /\ \A k \in 0..MaxVal :
       /\ C19_Counts(k)
       /\ C19_Stays(Eval(Idle(k), state, {}), k)
  /\ C19_Wait

\* the body has been evaluated MaxVal times by one While, and the While of
\* page Wait has been reached
C19_Witness ==
  /\ last.op = "play"
  /\ prev.current_page = "Wait"
  /\ mode = "hung"
  /\ GlobalN(state) = 0
  /\ Len(Eval(Counting(MaxVal), state, {}).result.output) = MaxVal

(***************************************************************************)
(* C20: when the contents of the pages on the way finish evaluating, play  *)
(* returns exactly when the redirects followed from current_page come to a *)
(* page that halts or to a title that is not registered; when they come    *)
(* back to a page with the variables it was left with (Ping and Pong, or   *)
(* Spin redirecting to itself) play never returns.  A page reached twice   *)
(* with other variables (Retry) is no such cycle.                          *)
(***************************************************************************)
\* most redirects the chain is followed for
MaxHops == 3

RECURSIVE Chase(_, _)
\* after the evaluation r of a page: the chain ends, goes on, or r never came
ChaseNext(r, hops) ==
  IF r.result.status # "ok" THEN "unfinished"
  ELSE IF r.result.action = Halt THEN "ends"
  ELSE IF hops = 0 THEN "goes on"
  ELSE Chase([r.st EXCEPT !.current_page = r.result.action[2]], hops - 1)
\* the redirects from st.current_page, followed for at most hops of them
Chase(st, hops) ==
  IF st.current_page \notin DOMAIN Pages THEN "ends"
  ELSE ChaseNext(Eval(Pages[st.current_page].content, st, {}), hops)

C20_Chain(chain) ==
  /\ chain = "ends" => mode = "ready"
  /\ chain = "goes on" => (mode = "hung" /\ state = prev)

C20_PlayEndsWithChain == last.op = "play" => C20_Chain(Chase(prev, MaxHops))

\* play was called on Pong and has not returned: Pong redirects to Ping, Ping
\* to Pong
C20_Witness ==
  /\ last.op = "play"
  /\ prev.current_page = "Pong"
  /\ mode = "hung"
  /\ Chase(prev, MaxHops) = "goes on"
  /\ Eval(PongPage.content, prev, {}).result.action = Goto("Ping")
  /\ Eval(PingPage.content, prev, {}).result.action = Goto("Pong")

====
